---------------------------- MODULE Spec2Model ----------------------------
(***************************************************************************)
(* SVGSmartColorizer: the colour classifier, the colour generator, the     *)
(* snapshot store and the apply / reset operations, modelled over a small  *)
(* document tree.                                                          *)
(*                                                                         *)
(* A document is a sequence of nodes in document order.  Every node has a  *)
(* depth (1 = child of the target element), so the parent of a node is the *)
(* nearest earlier node of smaller depth and a subtree is a contiguous     *)
(* slice.  Attribute values are strings; NULL stands for JavaScript's null *)
(* (attribute absent), which is different from the empty string.           *)
(***************************************************************************)
EXTENDS Integers, Sequences, FiniteSets, TLC

VARIABLES
    config,          \* this.config (fixed at construction)
    svgStates,       \* this.svgStates : svgId -> originalState
    eventListeners,  \* this.eventListeners : eventName -> sequence of listeners
    elementFilter,   \* this.elementFilter
    colorValidator,  \* this.colorValidator
    dom,             \* the host documents : target name -> document
    now,             \* the reading of Date.now()
    budget,          \* number of calls the caller may still make
    lastOp,          \* the last call: its name, target, arguments and return value
    emitted,         \* the events emitted by the last call, in order
    domBefore,       \* the documents as they were when the last call started
    statesBefore,    \* this.svgStates as it was when the last call started
    prevOp,          \* the call before the last one
    invoked,         \* the listener invocations of the last call, in order
    listenersBefore, \* this.eventListeners as it was when the last call started
    domOriginal      \* the documents as they were when the instance was constructed

vars == <<config, svgStates, eventListeners, elementFilter, colorValidator,
          dom, now, budget, lastOp, emitted, domBefore, statesBefore, prevOp,
          invoked, listenersBefore, domOriginal>>

-----------------------------------------------------------------------------
(* Bounds of the model *)

MaxOps == 2
MaxCycleOps == 3
MaxClassifyOps == 1
MaxNow == 1

(* JavaScript null / undefined for string-valued slots *)
NULL == "<null>"
(* undefined for number-valued slots *)
NONE == 0 - 1

(* Math.random() in hundredths: 0 stands for 0.0, 50 for 0.5 *)
Randoms == {0, 50}

PaintableTags == {"path", "rect", "circle", "polygon", "polyline", "line", "ellipse"}
StateTags == PaintableTags \cup {"g"}

FallbackColor == "#409eff"

-----------------------------------------------------------------------------
(* Document tree *)

Node(tag, depth, fill, stroke, style) ==
    [tag |-> tag, depth |-> depth, fill |-> fill, stroke |-> stroke,
     style |-> style, id |-> NULL, stops |-> <<>>]

GradientNode(depth, id, c1, c2) ==
    [tag |-> "linearGradient", depth |-> depth, fill |-> NULL, stroke |-> NULL,
     style |-> NULL, id |-> id, stops |-> <<c1, c2>>]

RECURSIVE PositionsFrom(_, _, _)
PositionsFrom(nodes, tags, i) ==
    IF i > Len(nodes) THEN <<>>
    ELSE IF nodes[i].tag \in tags THEN <<i>> \o PositionsFrom(nodes, tags, i + 1)
    ELSE PositionsFrom(nodes, tags, i + 1)

(* svgElement.querySelectorAll(selector list): the positions of the        *)
(* descendants with one of the tags, in document order                     *)
querySelectorAll(nodes, tags) == PositionsFrom(nodes, tags, 1)

(* svgElement.querySelector('defs'): position of the first defs, 0 if none *)
querySelectorDefs(nodes) ==
    LET ps == querySelectorAll(nodes, {"defs"})
    IN  IF ps = <<>> THEN 0 ELSE ps[1]

IsAncestor(nodes, j, i) ==
    /\ j < i
    /\ \A k \in (j + 1)..i : nodes[k].depth > nodes[j].depth

(* element.closest(`g[attribute]`): the nearest ancestor g that declares   *)
(* the attribute (with any value); 0 if there is none                      *)
closest(nodes, i, attribute) ==
    LET cands == {j \in 1..(i - 1) :
                    /\ IsAncestor(nodes, j, i)
                    /\ nodes[j].tag = "g"
                    /\ nodes[j][attribute] # NULL}
    IN  IF cands = {} THEN 0
        ELSE CHOOSE j \in cands : \A k \in cands : k <= j

(* last position of the subtree rooted at position i *)
SubtreeEnd(nodes, i) ==
    LET later == {k \in (i + 1)..Len(nodes) : nodes[k].depth <= nodes[i].depth}
    IN  IF later = {} THEN Len(nodes)
        ELSE (CHOOSE k \in later : \A m \in later : k <= m) - 1

InsertAt(nodes, i, new) ==
    SubSeq(nodes, 1, i - 1) \o new \o SubSeq(nodes, i, Len(nodes))

RemoveRange(nodes, i, j) ==
    SubSeq(nodes, 1, i - 1) \o SubSeq(nodes, j + 1, Len(nodes))

(* a subtree slice moved so that its root has the given depth *)
Rebase(sub, depth) ==
    [k \in 1..Len(sub) |->
        [sub[k] EXCEPT !.depth = sub[k].depth - sub[1].depth + depth]]

(* node.cloneNode(true) of the subtree at position i, as a detached tree *)
cloneNode(nodes, i) == Rebase(SubSeq(nodes, i, SubtreeEnd(nodes, i)), 1)

(* truthy and not one of the "no paint" values *)
IsColor(v) == v # NULL /\ v # "" /\ v # "none" /\ v # "transparent"

-----------------------------------------------------------------------------
(* Callbacks supplied by the caller.  A callback is a pure predicate; the   *)
(* model gives its outcome per argument: "true", "false" (any falsy value)  *)
(* or "throw".  isSet = FALSE is the null the constructor installs.         *)

NoFilter == [isSet |-> FALSE, on |-> [t \in PaintableTags |-> "true"]]

FilterOn(tag, outcome) ==
    [isSet |-> TRUE,
     on |-> [t \in PaintableTags |-> IF t = tag THEN outcome ELSE "true"]]

FilterOutcome(node) ==
    IF elementFilter.isSet THEN elementFilter.on[node.tag] ELSE "true"

Colors(palette) == {palette[k] : k \in 1..Len(palette)}

NoValidator(palette) == [isSet |-> FALSE, on |-> [c \in Colors(palette) |-> "true"]]

ValidatorOn(palette, color, outcome) ==
    [isSet |-> TRUE,
     on |-> [c \in Colors(palette) |-> IF c = color THEN outcome ELSE "true"]]

-----------------------------------------------------------------------------
(* Color classifier *)

(* the nearest g declaring the attribute gives the element a colour *)
HasInherited(nodes, i, attribute) ==
    LET parentG == closest(nodes, i, attribute)
    IN  parentG # 0 /\ IsColor(nodes[parentG][attribute])

(* the classifier without the line-icon rule: an element without fill gets *)
(* one whether or not it has a stroke                                      *)
shouldProcessElementColor_noProtection(nodes, i, attribute) ==
    IF FilterOutcome(nodes[i]) = "false" THEN FALSE
    ELSE IF IsColor(nodes[i][attribute]) THEN TRUE
    ELSE IF HasInherited(nodes, i, attribute) THEN TRUE
    ELSE attribute = "fill"

(* the classifier treating stroke like fill: an element with no paint at   *)
(* all gets both                                                           *)
shouldProcessElementColor_symmetric(nodes, i, attribute) ==
    IF FilterOutcome(nodes[i]) = "false" THEN FALSE
    ELSE IF IsColor(nodes[i][attribute]) THEN TRUE
    ELSE IF HasInherited(nodes, i, attribute) THEN TRUE
    ELSE LET other == IF attribute = "fill" THEN "stroke" ELSE "fill"
             hasOther == \/ IsColor(nodes[i][other])
                         \/ HasInherited(nodes, i, other)
         IN  IF hasOther /\ config.preserveLinearStyle THEN FALSE ELSE TRUE

(* shouldProcessElementColor(element, attribute), for a filter call that    *)
(* returns; a throwing filter is the caller's FilterOutcome = "throw" case  *)
shouldProcessElementColor(nodes, i, attribute) ==
    IF FilterOutcome(nodes[i]) = "false" THEN FALSE
    ELSE IF IsColor(nodes[i][attribute]) THEN TRUE
    ELSE IF HasInherited(nodes, i, attribute) THEN TRUE
    ELSE IF attribute = "fill"
         THEN LET hasStroke == \/ IsColor(nodes[i].stroke)
                               \/ HasInherited(nodes, i, "stroke")
              IN  IF hasStroke /\ config.preserveLinearStyle THEN FALSE ELSE TRUE
    ELSE FALSE

-----------------------------------------------------------------------------
(* Color / gradient generator *)

(* Math.floor(Math.random() * colors.length), the random number given in   *)
(* hundredths *)
RandomIndex(r, length) == (r * length) \div 100

(* generateRandomColor that samples again when the validator rejects *)
generateRandomColor_resample(r) ==
    LET colors == config.colorPalette
        randomColor == colors[RandomIndex(r, Len(colors)) + 1]
        again == colors[1]
        verdict == IF colorValidator.isSet THEN colorValidator.on[randomColor]
                   ELSE "true"
    IN  IF verdict = "throw" THEN [threw |-> TRUE, color |-> NULL]
        ELSE IF verdict = "false" THEN [threw |-> FALSE, color |-> again]
        ELSE [threw |-> FALSE, color |-> randomColor]

(* generateRandomColor(): [threw, color] *)
generateRandomColor(r) ==
    LET colors == config.colorPalette
        randomColor == colors[RandomIndex(r, Len(colors)) + 1]
        verdict == IF colorValidator.isSet THEN colorValidator.on[randomColor]
                   ELSE "true"
    IN  IF verdict = "throw" THEN [threw |-> TRUE, color |-> NULL]
        ELSE IF verdict = "false" THEN [threw |-> FALSE, color |-> FallbackColor]
        ELSE [threw |-> FALSE, color |-> randomColor]

(* generateRandomGradient(id): [threw, gradient, url]; the gradient node is *)
(* detached (depth 0) until it is appended                                  *)
generateRandomGradient(id, r1, r2) ==
    LET color1 == generateRandomColor(r1)
        color2 == generateRandomColor(r2)
        gradientId == "gradient-" \o id \o "-" \o ToString(now)
    IN  IF color1.threw \/ color2.threw
        THEN [threw |-> TRUE, gradient |-> GradientNode(0, NULL, NULL, NULL),
              url |-> NULL]
        ELSE [threw |-> FALSE,
              gradient |-> GradientNode(0, gradientId, color1.color, color2.color),
              url |-> "url(#" \o gradientId \o ")"]

-----------------------------------------------------------------------------
(* Snapshot store *)

NoStates == [id \in {} |-> <<>>]

(* saveOriginalState recording the paintable elements only, not the groups *)
saveOriginalState_paintablesOnly(states, nodes, svgId) ==
    IF svgId \in DOMAIN states THEN states
    ELSE LET elements == querySelectorAll(nodes, PaintableTags)
             defs == querySelectorDefs(nodes)
             originalState ==
                [elements |->
                    [k \in 1..Len(elements) |->
                        [index |-> k - 1,
                         tagName |-> nodes[elements[k]].tag,
                         fill |-> nodes[elements[k]].fill,
                         stroke |-> nodes[elements[k]].stroke,
                         style |-> nodes[elements[k]].style]],
                 defs |-> IF defs = 0 THEN <<>> ELSE cloneNode(nodes, defs)]
         IN  states @@ (svgId :> originalState)

(* saveOriginalState without the early return: every apply recaptures *)
saveOriginalState_overwrite(states, nodes, svgId) ==
    LET elements == querySelectorAll(nodes, StateTags)
        defs == querySelectorDefs(nodes)
        originalState ==
           [elements |->
               [k \in 1..Len(elements) |->
                   [index |-> k - 1,
                    tagName |-> nodes[elements[k]].tag,
                    fill |-> nodes[elements[k]].fill,
                    stroke |-> nodes[elements[k]].stroke,
                    style |-> nodes[elements[k]].style]],
            defs |-> IF defs = 0 THEN <<>> ELSE cloneNode(nodes, defs)]
    IN  (svgId :> originalState) @@ states

(* saveOriginalState(svgElement, svgId): the store after the call *)
saveOriginalState(states, nodes, svgId) ==
    IF svgId \in DOMAIN states THEN states
    ELSE LET elements == querySelectorAll(nodes, StateTags)
             defs == querySelectorDefs(nodes)
             originalState ==
                [elements |->
                    [k \in 1..Len(elements) |->
                        [index |-> k - 1,
                         tagName |-> nodes[elements[k]].tag,
                         fill |-> nodes[elements[k]].fill,
                         stroke |-> nodes[elements[k]].stroke,
                         style |-> nodes[elements[k]].style]],
                 defs |-> IF defs = 0 THEN <<>> ELSE cloneNode(nodes, defs)]
         IN  states @@ (svgId :> originalState)

-----------------------------------------------------------------------------
(* Events.  el is the 0-based position of the element among the paintable   *)
(* elements of the target (NONE when the event carries the target itself or *)
(* no element); index is the event's own index field (NONE when the code    *)
(* does not set it).                                                        *)

ColorApplied(el, attribute, color, index) ==
    [name |-> "colorApplied", el |-> el, attribute |-> attribute, color |-> color,
     index |-> index, error |-> NULL, processedCount |-> NONE, totalCount |-> NONE,
     svgId |-> NULL]

ErrorEvent(error, el, index) ==
    [name |-> "error", el |-> el, attribute |-> NULL, color |-> NULL,
     index |-> index, error |-> error, processedCount |-> NONE, totalCount |-> NONE,
     svgId |-> NULL]

CompleteEvent(processedCount, totalCount) ==
    [name |-> "complete", el |-> NONE, attribute |-> NULL, color |-> NULL,
     index |-> NONE, error |-> NULL, processedCount |-> processedCount,
     totalCount |-> totalCount, svgId |-> NULL]

ResetEvent(svgId) ==
    [name |-> "reset", el |-> NONE, attribute |-> NULL, color |-> NULL,
     index |-> NONE, error |-> NULL, processedCount |-> NONE, totalCount |-> NONE,
     svgId |-> svgId]

-----------------------------------------------------------------------------
(* Apply *)

(* applyColorToElement(element, attribute, color): the tree after the call *)
applyColorToElement(nodes, i, attribute, color) ==
    LET originalValue == nodes[i][attribute]
        parentG == closest(nodes, i, attribute)
    IN  IF ~IsColor(originalValue) /\ parentG # 0
        THEN [nodes EXCEPT ![parentG][attribute] = color]
        ELSE [nodes EXCEPT ![i][attribute] = color]

(* createDefsElement(svgElement): a new defs as the first child *)
createDefsElement(nodes) ==
    InsertAt(nodes, 1, <<Node("defs", 1, NULL, NULL, NULL)>>)

(* defsElement.appendChild(gradient) on the first defs of the tree *)
appendToDefs(nodes, gradient) ==
    LET defs == querySelectorDefs(nodes)
    IN  InsertAt(nodes, SubtreeEnd(nodes, defs) + 1,
                 <<[gradient EXCEPT !.depth = nodes[defs].depth + 1]>>)

(* the random numbers one element may consume: gradient or not, the colour *)
(* (or the two stop colours), the stroke colour                            *)
Draws == [g : Randoms, a : Randoms, b : Randoms, s : Randoms]

(* position in the tree of the index-th paintable element *)
ElementAt(nodes, index) == querySelectorAll(nodes, PaintableTags)[index + 1]

(* a catch block that swallows the exception without reporting it *)
Thrown_silent(st, error, index) == st

(* The loop state of applyRandomColors / applyRandomPathColors:            *)
(* [nodes, events, processedCount, threw, writes], writes counting the     *)
(* calls of applyColorToElement                                            *)
Thrown(st, error, index) ==
    [st EXCEPT !.events = Append(@, ErrorEvent(error, index, index))]

(* the fill branch of the loop body of applyRandomColors: st extended with *)
(* failed (an exception left the branch)                                   *)
FillBranch(st, index, svgId, d) ==
    LET useGradient == d.g < config.gradientProbability
        gradientData == generateRandomGradient(
                            svgId \o "-fill-" \o ToString(index), d.a, d.b)
        flat == generateRandomColor(d.a)
        failed == IF useGradient THEN gradientData.threw ELSE flat.threw
        fillColor == IF useGradient THEN gradientData.url ELSE flat.color
        withDefs == IF useGradient THEN appendToDefs(st.nodes, gradientData.gradient)
                    ELSE st.nodes
    IN  IF failed THEN [st |-> st, failed |-> TRUE]
        ELSE [st |-> [st EXCEPT
                        !.nodes = applyColorToElement(
                                      withDefs, ElementAt(withDefs, index), "fill", fillColor),
                        !.writes = @ + 1,
                        !.events = Append(@, ColorApplied(index, "fill", fillColor, NONE))],
              failed |-> FALSE]

(* the stroke branch writing the stroke without announcing it *)
StrokeBranch_unannounced(st, index, independentColors, d, eventIndex) ==
    LET fresh == generateRandomColor(d.s)
    IN  IF ~independentColors THEN [st |-> st, failed |-> TRUE, error |-> "ReferenceError"]
        ELSE IF fresh.threw THEN [st |-> st, failed |-> TRUE, error |-> "validator"]
        ELSE [st |-> [st EXCEPT
                        !.nodes = applyColorToElement(
                                      st.nodes, ElementAt(st.nodes, index), "stroke", fresh.color),
                        !.writes = @ + 1],
              failed |-> FALSE, error |-> NULL]

(* the stroke branch: with independentColors = false the expression        *)
(* `fillColor || ...` reads a name that is declared (let) inside the block *)
(* of the fill branch only, which is a ReferenceError                      *)
StrokeBranch(st, index, independentColors, d, eventIndex) ==
    LET fresh == generateRandomColor(d.s)
    IN  IF ~independentColors THEN [st |-> st, failed |-> TRUE, error |-> "ReferenceError"]
        ELSE IF fresh.threw THEN [st |-> st, failed |-> TRUE, error |-> "validator"]
        ELSE [st |-> [st EXCEPT
                        !.nodes = applyColorToElement(
                                      st.nodes, ElementAt(st.nodes, index), "stroke", fresh.color),
                        !.writes = @ + 1,
                        !.events = Append(@, ColorApplied(index, "stroke", fresh.color, eventIndex))],
              failed |-> FALSE, error |-> NULL]

(* one iteration of elements.forEach in applyRandomColors, try/catch included *)
ProcessElement(st, index, svgId, d) ==
    LET i == ElementAt(st.nodes, index)
        shouldProcessFill == shouldProcessElementColor(st.nodes, i, "fill")
        shouldProcessStroke == shouldProcessElementColor(st.nodes, i, "stroke")
        afterFill == IF shouldProcessFill THEN FillBranch(st, index, svgId, d)
                     ELSE [st |-> st, failed |-> FALSE]
        afterStroke == IF shouldProcessStroke
                       THEN StrokeBranch(afterFill.st, index, config.independentColors, d, NONE)
                       ELSE [st |-> afterFill.st, failed |-> FALSE, error |-> NULL]
    IN  IF FilterOutcome(st.nodes[i]) = "throw" THEN Thrown(st, "filter", index)
        ELSE IF afterFill.failed THEN Thrown(afterFill.st, "validator", index)
        ELSE IF afterStroke.failed THEN Thrown(afterStroke.st, afterStroke.error, index)
        ELSE [afterStroke.st EXCEPT !.processedCount = @ + 1]

(* elements.forEach(...) of applyRandomColors from the given index on: the *)
(* set of loop states the random numbers can lead to                       *)
RECURSIVE ForEachElement(_, _, _, _)
ForEachElement(st, index, total, svgId) ==
    IF index >= total THEN {st}
    ELSE UNION {ForEachElement(next, index + 1, total, svgId) :
                    next \in {ProcessElement(st, index, svgId, d) : d \in Draws}}

-----------------------------------------------------------------------------
(* Reset *)

(* originalState.elements.forEach(...) of resetColors: every record whose  *)
(* index names a live element of the same tag puts its three attributes    *)
(* back (null removes the attribute); record indices are distinct, so the  *)
(* order of the records does not matter                                    *)
restoreElements(nodes, originalState) ==
    LET elements == querySelectorAll(nodes, StateTags)
        RecordFor(i) ==
            {k \in 1..Len(originalState.elements) :
                /\ originalState.elements[k].index + 1 <= Len(elements)
                /\ elements[originalState.elements[k].index + 1] = i
                /\ nodes[i].tag = originalState.elements[k].tagName}
    IN  [i \in 1..Len(nodes) |->
            IF RecordFor(i) = {} THEN nodes[i]
            ELSE LET originalElement ==
                        originalState.elements[CHOOSE k \in RecordFor(i) : TRUE]
                 IN  [nodes[i] EXCEPT !.fill = originalElement.fill,
                                      !.stroke = originalElement.stroke,
                                      !.style = originalElement.style]]

(* the defs part of resetColors: the live first defs is removed and a copy *)
(* of the saved one is inserted before the first child                     *)
restoreDefs(nodes, originalState) ==
    LET currentDefs == querySelectorDefs(nodes)
        removed == IF currentDefs # 0
                   THEN RemoveRange(nodes, currentDefs, SubtreeEnd(nodes, currentDefs))
                   ELSE nodes
    IN  IF originalState.defs # <<>>
        THEN InsertAt(removed, 1, originalState.defs)
        ELSE removed

-----------------------------------------------------------------------------
(* Inspection *)

startsWithUrl(v) == Len(v) >= 4 /\ SubSeq(v, 1, 4) = "url("

(* checkInheritance(element) *)
checkInheritance(nodes, i) ==
    closest(nodes, i, "fill") # 0 \/ closest(nodes, i, "stroke") # 0

NoReport ==
    [totalElements |-> NONE, fillElements |-> NONE, strokeElements |-> NONE,
     gradientElements |-> NONE, inheritedElements |-> NONE]

(* getColorState looking for gradient references in the fill only *)
getColorState_fillOnly(nodes) ==
    LET elements == querySelectorAll(nodes, PaintableTags)
        At(k) == nodes[elements[k]]
        hasGradient(n) == n.fill # NULL /\ n.fill # "" /\ startsWithUrl(n.fill)
    IN  [totalElements |-> Len(elements),
         fillElements |-> Cardinality({k \in 1..Len(elements) : IsColor(At(k).fill)}),
         strokeElements |-> Cardinality({k \in 1..Len(elements) : IsColor(At(k).stroke)}),
         gradientElements |-> Cardinality({k \in 1..Len(elements) : hasGradient(At(k))}),
         inheritedElements |->
             Cardinality({k \in 1..Len(elements) : checkInheritance(nodes, elements[k])})]

(* getColorState(svgElement): the aggregate counts of the report *)
getColorState(nodes) ==
    LET elements == querySelectorAll(nodes, PaintableTags)
        At(k) == nodes[elements[k]]
        hasGradient(n) == \/ (n.fill # NULL /\ n.fill # "" /\ startsWithUrl(n.fill))
                          \/ (n.stroke # NULL /\ n.stroke # "" /\ startsWithUrl(n.stroke))
    IN  [totalElements |-> Len(elements),
         fillElements |-> Cardinality({k \in 1..Len(elements) : IsColor(At(k).fill)}),
         strokeElements |-> Cardinality({k \in 1..Len(elements) : IsColor(At(k).stroke)}),
         gradientElements |-> Cardinality({k \in 1..Len(elements) : hasGradient(At(k))}),
         inheritedElements |->
             Cardinality({k \in 1..Len(elements) : checkInheritance(nodes, elements[k])})]

-----------------------------------------------------------------------------
(* Notification channel *)

(* The listeners the caller registers, and the events it registers them on *)
ListenerIds == {"L1"}
ListenEvents == {"error"}

NoListeners == [e \in {} |-> <<>>]

(* What a listener's callback does: "LThrow" throws, "LOnce" removes itself *)
(* from the event it is called for (a run-once listener), any other        *)
(* listener returns without touching the instance                          *)
Behaviour(listener) ==
    IF listener = "LThrow" THEN "throw"
    ELSE IF listener = "LOnce" THEN "off"
    ELSE "return"

(* this.eventListeners.get(eventName) || [] *)
ListenersOf(registry, eventName) ==
    IF eventName \in DOMAIN registry THEN registry[eventName] ELSE <<>>

(* on(eventName, listener): the registry after the call *)
on(registry, eventName, listener) ==
    IF eventName \in DOMAIN registry
    THEN [registry EXCEPT ![eventName] = Append(@, listener)]
    ELSE registry @@ (eventName :> <<listener>>)

(* listeners.indexOf(listener), 1-based; 0 when it is not in the list *)
indexOf(listeners, listener) ==
    LET at == {k \in 1..Len(listeners) : listeners[k] = listener}
    IN  IF at = {} THEN 0 ELSE CHOOSE k \in at : \A m \in at : k <= m

(* off(eventName, listener): the registry after the call; splice works on  *)
(* the array the registry holds                                            *)
off(registry, eventName, listener) ==
    LET index == indexOf(ListenersOf(registry, eventName), listener)
    IN  IF index > 0
        THEN [registry EXCEPT ![eventName] = RemoveRange(@, index, index)]
        ELSE registry

(* one call of a listener: the listener, the position of the event among   *)
(* the events of the call, and how the call of the listener ended          *)
Invocation(listener, event, outcome) ==
    [listener |-> listener, event |-> event, outcome |-> outcome]

(* listeners.forEach(...) without the try/catch around the listener: the   *)
(* first exception leaves the loop and emit                                *)
RECURSIVE forEach_noCatch(_, _, _, _, _, _)
forEach_noCatch(registry, eventName, event, k, length, log) ==
    IF k > length \/ k > Len(ListenersOf(registry, eventName))
    THEN [registry |-> registry, log |-> log]
    ELSE LET listener == ListenersOf(registry, eventName)[k]
             after == IF Behaviour(listener) = "off"
                      THEN off(registry, eventName, listener) ELSE registry
         IN  IF Behaviour(listener) = "throw"
             THEN [registry |-> after,
                   log |-> Append(log, Invocation(listener, event, "escaped"))]
             ELSE forEach_noCatch(after, eventName, event, k + 1, length,
                                  Append(log, Invocation(listener, event, "returned")))

emit_noCatch(registry, eventName, event, log) ==
    forEach_noCatch(registry, eventName, event, 1,
                    Len(ListenersOf(registry, eventName)), log)

(* listeners.forEach(...) of emit from position k on.  forEach walks the   *)
(* positions below the length the array had when it started and reads the  *)
(* array as it is when it gets to a position: a position that no longer    *)
(* exists is not visited, a listener added meanwhile is not visited        *)
RECURSIVE forEach(_, _, _, _, _, _)
forEach(registry, eventName, event, k, length, log) ==
    IF k > length \/ k > Len(ListenersOf(registry, eventName))
    THEN [registry |-> registry, log |-> log]
    ELSE LET listener == ListenersOf(registry, eventName)[k]
             after == IF Behaviour(listener) = "off"
                      THEN off(registry, eventName, listener) ELSE registry
             outcome == IF Behaviour(listener) = "throw" THEN "caught" ELSE "returned"
         IN  forEach(after, eventName, event, k + 1, length,
                     Append(log, Invocation(listener, event, outcome)))

(* emit(eventName, eventData): the registry after the call and the log     *)
(* extended with the listeners called                                      *)
emit(registry, eventName, event, log) ==
    forEach(registry, eventName, event, 1, Len(ListenersOf(registry, eventName)), log)

(* the this.emit(...) calls of one public call, in the order of its events *)
RECURSIVE EmitAll(_, _, _, _)
EmitAll(registry, events, k, log) ==
    IF k > Len(events) THEN [registry |-> registry, log |-> log]
    ELSE LET out == emit(registry, events[k].name, k, log)
         IN  EmitAll(out.registry, events, k + 1, out.log)

(* the listeners run for the events of the call *)
Deliver ==
    LET out == EmitAll(eventListeners, emitted', 1, <<>>)
    IN  /\ eventListeners' = out.registry
        /\ invoked' = out.log

-----------------------------------------------------------------------------
(* The public calls.  Every call is one atomic step: the library is        *)
(* synchronous and runs each call to completion.                           *)

(* the caller passes null / undefined instead of an element *)
NoTarget == "<no element>"

Targets == DOMAIN dom \cup {NoTarget}

toLowerCase(tagName) ==
    IF tagName = "SVG" THEN "svg"
    ELSE IF tagName = "DIV" THEN "div"
    ELSE tagName

(* Math.random().toString(36).substr(2, 9) for the modelled random numbers: *)
(* (0).toString(36) is "0", (0.5).toString(36) is "0.i"                     *)
Base36Tail(r) == IF r = 0 THEN "" ELSE "i"

NoIndices == [given |-> FALSE, list |-> <<>>]

Indices(list) == [given |-> TRUE, list |-> list]

Call(op, target, result, svgId) ==
    [op |-> op, target |-> target, result |-> result, svgId |-> svgId,
     report |-> NoReport, pathIndices |-> NoIndices, independentColors |-> TRUE,
     id |-> NULL, random |-> NONE, gradient |-> GradientNode(0, NULL, NULL, NULL),
     writes |-> NONE]

(* the precondition without the tag test *)
IsValidTarget_anyElement(t) == t # NoTarget

(* the precondition of applyRandomColors: an element whose tag is svg *)
IsValidTarget(t) == t # NoTarget /\ toLowerCase(dom[t].tagName) = "svg"

Spend ==
    /\ budget > 0
    /\ budget' = budget - 1
    /\ domBefore' = dom
    /\ statesBefore' = svgStates
    /\ prevOp' = lastOp
    /\ listenersBefore' = eventListeners
    /\ UNCHANGED domOriginal

(* applyRandomColors(svgElement) *)
ApplyRandomColors(t) ==
    /\ Spend
    /\ UNCHANGED <<config, elementFilter, colorValidator, now>>
    /\ IF ~IsValidTarget(t)
       THEN /\ emitted' = <<ErrorEvent("invalid", NONE, NONE)>>
            /\ lastOp' = Call("applyRandomColors", t, "false", NULL)
            /\ UNCHANGED <<dom, svgStates>>
       ELSE \E r \in Randoms :
            LET svgId == IF dom[t].id # "" THEN dom[t].id
                         ELSE "svg-" \o ToString(now) \o "-" \o Base36Tail(r)
                nodes == dom[t].nodes
                total == Len(querySelectorAll(nodes, PaintableTags))
                withDefs == IF querySelectorDefs(nodes) # 0 THEN nodes
                            ELSE createDefsElement(nodes)
                start == [nodes |-> withDefs, events |-> <<>>, processedCount |-> 0,
                          threw |-> FALSE, writes |-> 0]
            IN  /\ svgStates' = saveOriginalState(svgStates, nodes, svgId)
                /\ IF total = 0
                   THEN /\ emitted' = <<>>
                        /\ lastOp' = Call("applyRandomColors", t, "false", svgId)
                        /\ UNCHANGED dom
                   ELSE \E st \in ForEachElement(start, 0, total, svgId) :
                        /\ dom' = [dom EXCEPT ![t].nodes = st.nodes]
                        /\ emitted' = Append(st.events,
                                             CompleteEvent(st.processedCount, total))
                        /\ lastOp' = [Call("applyRandomColors", t, "true", svgId)
                                          EXCEPT !.writes = st.writes]
    /\ Deliver

(* the random numbers one index of applyRandomPathColors may consume *)
PathDraws == [g : {0}, a : Randoms, b : {0}, s : Randoms]

(* one iteration of targetIndices.forEach in applyRandomPathColors; there  *)
(* is no try/catch inside this loop, so an exception ends the loop         *)
ProcessPathIndex(st, index, total, independentColors, d) ==
    LET i == ElementAt(st.nodes, index)
        shouldProcessFill == shouldProcessElementColor(st.nodes, i, "fill")
        shouldProcessStroke == shouldProcessElementColor(st.nodes, i, "stroke")
        fillColor == generateRandomColor(d.a)
        afterFill ==
            IF ~shouldProcessFill THEN [st |-> st, failed |-> FALSE]
            ELSE IF fillColor.threw THEN [st |-> st, failed |-> TRUE]
            ELSE [st |-> [st EXCEPT
                            !.nodes = applyColorToElement(st.nodes, i, "fill", fillColor.color),
                            !.writes = @ + 1,
                            !.events = Append(@, ColorApplied(index, "fill",
                                                              fillColor.color, index))],
                  failed |-> FALSE]
        afterStroke == IF shouldProcessStroke
                       THEN StrokeBranch(afterFill.st, index, independentColors, d, index)
                       ELSE [st |-> afterFill.st, failed |-> FALSE, error |-> NULL]
        Abort(s, error) ==
            [s EXCEPT !.threw = TRUE, !.events = Append(@, ErrorEvent(error, NONE, NONE))]
    IN  IF ~(index >= 0 /\ index < total) THEN st
        ELSE IF FilterOutcome(st.nodes[i]) = "throw" THEN Abort(st, "filter")
        ELSE IF afterFill.failed THEN Abort(afterFill.st, "validator")
        ELSE IF afterStroke.failed THEN Abort(afterStroke.st, afterStroke.error)
        ELSE [afterStroke.st EXCEPT !.processedCount = @ + 1]

RECURSIVE ForEachIndex(_, _, _, _, _)
ForEachIndex(st, targetIndices, k, total, independentColors) ==
    IF k > Len(targetIndices) \/ st.threw THEN {st}
    ELSE UNION {ForEachIndex(next, targetIndices, k + 1, total, independentColors) :
                    next \in {ProcessPathIndex(st, targetIndices[k], total,
                                               independentColors, d) : d \in PathDraws}}

(* applyRandomPathColors(svgElement, {pathIndices, independentColors}) *)
ApplyRandomPathColors(t, pathIndices, independentColors) ==
    /\ Spend
    /\ UNCHANGED <<config, elementFilter, colorValidator, now, svgStates>>
    /\ LET call(result) ==
               [Call("applyRandomPathColors", t, result, NULL) EXCEPT
                    !.pathIndices = pathIndices,
                    !.independentColors = independentColors]
       IN  IF t = NoTarget
           THEN /\ emitted' = <<ErrorEvent("TypeError", NONE, NONE)>>
                /\ lastOp' = call("false")
                /\ UNCHANGED dom
           ELSE LET nodes == dom[t].nodes
                    total == Len(querySelectorAll(nodes, PaintableTags))
                    targetIndices == IF pathIndices.given THEN pathIndices.list
                                     ELSE [k \in 1..total |-> k - 1]
                    start == [nodes |-> nodes, events |-> <<>>, processedCount |-> 0,
                              threw |-> FALSE, writes |-> 0]
                IN  IF total = 0
                    THEN /\ emitted' = <<>>
                         /\ lastOp' = call("false")
                         /\ UNCHANGED dom
                    ELSE \E st \in ForEachIndex(start, targetIndices, 1, total,
                                                independentColors) :
                         /\ dom' = [dom EXCEPT ![t].nodes = st.nodes]
                         /\ emitted' = IF st.threw THEN st.events
                                       ELSE Append(st.events,
                                                   CompleteEvent(st.processedCount,
                                                                 Len(targetIndices)))
                         /\ lastOp' = [call(IF st.threw THEN "false" ELSE "true")
                                           EXCEPT !.writes = st.writes]
    /\ Deliver

(* resetColors without the early return: using the missing state throws    *)
(* and the catch block reports the error                                   *)
resetColors_reportsMissing(states, doc) ==
    LET svgId == doc.id
    IN  IF svgId = "" \/ svgId \notin DOMAIN states
        THEN [result |-> "false", nodes |-> doc.nodes,
              events |-> <<ErrorEvent("TypeError", NONE, NONE)>>]
        ELSE [result |-> "true",
              nodes |-> restoreDefs(restoreElements(doc.nodes, states[svgId]),
                                    states[svgId]),
              events |-> <<ResetEvent(svgId)>>]

(* resetColors(svgElement) on an element: [result, nodes, events] *)
resetColors(states, doc) ==
    LET svgId == doc.id
    IN  IF svgId = "" \/ svgId \notin DOMAIN states
        THEN [result |-> "false", nodes |-> doc.nodes, events |-> <<>>]
        ELSE [result |-> "true",
              nodes |-> restoreDefs(restoreElements(doc.nodes, states[svgId]),
                                    states[svgId]),
              events |-> <<ResetEvent(svgId)>>]

(* resetColors(svgElement); reading the id of a missing element throws and *)
(* the catch block reports it                                              *)
ResetColors(t) ==
    /\ Spend
    /\ UNCHANGED <<config, elementFilter, colorValidator, now, svgStates>>
    /\ IF t = NoTarget
       THEN /\ emitted' = <<ErrorEvent("TypeError", NONE, NONE)>>
            /\ lastOp' = Call("resetColors", t, "false", NULL)
            /\ UNCHANGED dom
       ELSE LET out == resetColors(svgStates, dom[t])
            IN  /\ dom' = [dom EXCEPT ![t].nodes = out.nodes]
                /\ emitted' = out.events
                /\ lastOp' = Call("resetColors", t, out.result, dom[t].id)
    /\ Deliver

(* getColorState(svgElement) *)
GetColorState(t) ==
    /\ Spend
    /\ UNCHANGED <<config, eventListeners, elementFilter, colorValidator, now,
                   svgStates, dom>>
    /\ emitted' = <<>>
    /\ lastOp' = IF t = NoTarget THEN Call("getColorState", t, "null", NULL)
                 ELSE [Call("getColorState", t, "object", NULL) EXCEPT
                          !.report = getColorState(dom[t].nodes)]
    /\ invoked' = <<>>

(* clearStates() *)
ClearStates ==
    /\ Spend
    /\ UNCHANGED <<config, eventListeners, elementFilter, colorValidator, now, dom>>
    /\ svgStates' = NoStates
    /\ emitted' = <<>>
    /\ lastOp' = Call("clearStates", NoTarget, "undefined", NULL)
    /\ invoked' = <<>>

(* setElementFilter(filter) *)
SetElementFilter(filter) ==
    /\ Spend
    /\ UNCHANGED <<config, eventListeners, colorValidator, now, dom, svgStates>>
    /\ elementFilter' = filter
    /\ emitted' = <<>>
    /\ lastOp' = Call("setElementFilter", NoTarget, "undefined", NULL)
    /\ invoked' = <<>>

(* setColorValidator(validator) *)
SetColorValidator(validator) ==
    /\ Spend
    /\ UNCHANGED <<config, eventListeners, elementFilter, now, dom, svgStates>>
    /\ colorValidator' = validator
    /\ emitted' = <<>>
    /\ lastOp' = Call("setColorValidator", NoTarget, "undefined", NULL)
    /\ invoked' = <<>>


(* on(eventName, listener) *)
On(eventName, listener) ==
    /\ Spend
    /\ UNCHANGED <<config, elementFilter, colorValidator, now, dom, svgStates>>
    /\ eventListeners' = on(eventListeners, eventName, listener)
    /\ emitted' = <<>>
    /\ lastOp' = Call("on", NoTarget, "undefined", NULL)
    /\ invoked' = <<>>

(* off(eventName, listener) *)
Off(eventName, listener) ==
    /\ Spend
    /\ UNCHANGED <<config, elementFilter, colorValidator, now, dom, svgStates>>
    /\ eventListeners' = off(eventListeners, eventName, listener)
    /\ emitted' = <<>>
    /\ lastOp' = Call("off", NoTarget, "undefined", NULL)
    /\ invoked' = <<>>

(* emit(eventName, eventData), called by the user of the instance *)
Emit(eventName) ==
    /\ Spend
    /\ UNCHANGED <<config, elementFilter, colorValidator, now, dom, svgStates>>
    /\ emitted' = <<[ErrorEvent(NULL, NONE, NONE) EXCEPT !.name = eventName]>>
    /\ lastOp' = Call("emit", NoTarget, "undefined", NULL)
    /\ Deliver

(* generateRandomColor(), called by the user of the instance; result is    *)
(* the colour returned, or "throws" when the validator's exception leaves  *)
(* the call; random is the number Math.random() gave                       *)
GenerateRandomColor(r) ==
    /\ Spend
    /\ UNCHANGED <<config, eventListeners, elementFilter, colorValidator, now, dom,
                   svgStates>>
    /\ emitted' = <<>>
    /\ invoked' = <<>>
    /\ LET out == generateRandomColor(r)
       IN  lastOp' = [Call("generateRandomColor", NoTarget,
                           IF out.threw THEN "throws" ELSE out.color, NULL)
                         EXCEPT !.random = r]

(* generateRandomGradient(id), called by the user of the instance; result  *)
(* is the url of the returned pair, gradient its gradient node             *)
GenerateRandomGradient(id, r1, r2) ==
    /\ Spend
    /\ UNCHANGED <<config, eventListeners, elementFilter, colorValidator, now, dom,
                   svgStates>>
    /\ emitted' = <<>>
    /\ invoked' = <<>>
    /\ LET out == generateRandomGradient(id, r1, r2)
       IN  lastOp' = [Call("generateRandomGradient", NoTarget,
                           IF out.threw THEN "throws" ELSE out.url, NULL)
                         EXCEPT !.id = id, !.gradient = out.gradient]

(* the clock advances between calls *)
Tick ==
    /\ now < MaxNow
    /\ now' = now + 1
    /\ UNCHANGED <<config, svgStates, eventListeners, elementFilter, colorValidator,
                   dom, budget, lastOp, emitted, domBefore, statesBefore, prevOp,
                   invoked, listenersBefore, domOriginal>>

-----------------------------------------------------------------------------
(* Configurations and documents *)

DefaultGradientProbability == 30

Palette1 == <<"#ff6b6b">>
Palette2 == <<"#ff6b6b", "#4ecdc4">>

Config(palette, preserveLinearStyle, independentColors, gradientProbability) ==
    [colorPalette |-> palette, preserveLinearStyle |-> preserveLinearStyle,
     independentColors |-> independentColors,
     gradientProbability |-> gradientProbability, debug |-> FALSE]

(* the palette of an instance constructed without options *)
DefaultPalette ==
    <<"#ff6b6b", "#4ecdc4", "#45b7d1", "#96ceb4", "#feca57",
      "#ff9ff3", "#54a0ff", "#5f27cd", "#00d2d3", "#ff9f43",
      "#10ac84", "#ee5253", "#0abde3", "#3742fa", "#2f3542",
      "#409eff", "#67c23a", "#e6a23c", "#f56c6c", "#909399">>

DefaultConfig == Config(DefaultPalette, TRUE, TRUE, DefaultGradientProbability)

Configs ==
    {Config(Palette1, p, i, DefaultGradientProbability) : p \in BOOLEAN, i \in BOOLEAN}

Document(tagName, id, nodes) == [tagName |-> tagName, id |-> id, nodes |-> nodes]

(* a line icon and a shape without any paint *)
LineIcon ==
    Document("svg", "a",
        <<Node("path", 1, "none", "#000", "opacity:1"),
          Node("rect", 1, NULL, NULL, "")>>)

(* a group that declares the fill its children inherit *)
Grouped ==
    Document("svg", "a",
        <<Node("g", 1, "#333", NULL, NULL),
          Node("path", 2, NULL, NULL, NULL),
          Node("rect", 2, "", "#000", NULL)>>)

(* a target without an id attribute *)
NoId ==
    Document("svg", "",
        <<Node("path", 1, "#000", NULL, NULL)>>)

(* a definitions container that is not the first child and holds a shape *)
WithDefs ==
    Document("svg", "a",
        <<Node("path", 1, "url(#g1)", "", NULL),
          Node("defs", 1, NULL, NULL, NULL),
          GradientNode(2, "g1", "#000", "#333"),
          Node("rect", 2, "#000", NULL, NULL)>>)

(* no paintable element at all *)
Empty ==
    Document("svg", "a",
        <<Node("g", 1, "#333", NULL, NULL)>>)

(* an element that is not an svg *)
Div ==
    Document("DIV", "b",
        <<Node("path", 1, "#000", NULL, NULL)>>)

(* the documents every call is tried on, and those of the longer runs *)
PlainDocs == {LineIcon, Grouped, NoId, Empty}

SvgDocs == PlainDocs \cup {WithDefs}

Filters == {NoFilter, FilterOn("path", "false"), FilterOn("path", "throw")}

Validators(palette) ==
    {NoValidator(palette), ValidatorOn(palette, palette[1], "false"),
     ValidatorOn(palette, palette[1], "throw")}

(* the options applyRandomPathColors is called with *)
PathOptions ==
    {[pathIndices |-> NoIndices, independentColors |-> TRUE],
     [pathIndices |-> Indices(<<0>>), independentColors |-> FALSE],
     [pathIndices |-> Indices(<<9, 1>>), independentColors |-> TRUE]}

-----------------------------------------------------------------------------
(* Specification *)

(* a fresh instance and the documents of the page, given as the possible   *)
(* assignments of documents to target names                                *)
InitPage(configs, pages, ops) ==
    /\ config \in configs
    /\ svgStates = NoStates
    /\ eventListeners = NoListeners
    /\ elementFilter = NoFilter
    /\ colorValidator = NoValidator(config.colorPalette)
    /\ dom \in pages
    /\ now = 0
    /\ budget = ops
    /\ lastOp = Call("constructor", NoTarget, "undefined", NULL)
    /\ emitted = <<>>
    /\ domBefore = dom
    /\ statesBefore = svgStates
    /\ prevOp = lastOp
    /\ invoked = <<>>
    /\ listenersBefore = eventListeners
    /\ domOriginal = dom

(* a fresh instance and one document, the target "A" *)
InitWith(configs, docs, ops) ==
    InitPage(configs, {("A" :> d) : d \in docs}, ops)

Init == InitWith(Configs, PlainDocs \cup {Div}, MaxOps)

Next ==
    \/ \E t \in Targets : ApplyRandomColors(t)
    \/ \E t \in Targets, options \in PathOptions :
            ApplyRandomPathColors(t, options.pathIndices, options.independentColors)
    \/ \E t \in Targets : ResetColors(t)
    \/ \E t \in Targets : GetColorState(t)
    \/ ClearStates
    \/ \E filter \in Filters : SetElementFilter(filter)
    \/ \E validator \in Validators(config.colorPalette) : SetColorValidator(validator)
    \/ \E eventName \in ListenEvents, listener \in ListenerIds : On(eventName, listener)
    \/ \E eventName \in ListenEvents, listener \in ListenerIds : Off(eventName, listener)
    \/ \E eventName \in ListenEvents : Emit(eventName)
    \/ Tick

Spec == Init /\ [][Next]_vars

(* Longer runs of the calls that touch the tree of one target *)
InitCycle == InitWith(Configs, SvgDocs, MaxCycleOps)

NextCycle ==
    \/ ApplyRandomColors("A")
    \/ \E options \in PathOptions :
            ApplyRandomPathColors("A", options.pathIndices, options.independentColors)
    \/ \E t \in Targets : ResetColors(t)
    \/ ClearStates
    \/ \E filter \in Filters : SetElementFilter(filter)

SpecCycle == InitCycle /\ [][NextCycle]_vars

(* The classifier over every combination of own and inherited paint: one   *)
(* element alone, or inside two nested groups                              *)
ElementFills == {NULL, "", "none", "transparent", "#000"}
ElementStrokes == {NULL, "none", "#000"}
InnerFills == {NULL, "none", "#333"}
InnerStrokes == {NULL, "transparent", "#333"}
OuterPaints == {NULL, "#333"}

Singles ==
    {Document("svg", "a", <<Node("path", 1, f, k, NULL)>>) :
        f \in ElementFills, k \in ElementStrokes}

Chains ==
    {Document("svg", "a",
        <<Node("g", 1, outer[1], outer[2], NULL),
          Node("g", 2, inner[1], inner[2], NULL),
          Node("path", 3, own[1], own[2], NULL)>>) :
        outer \in OuterPaints \X OuterPaints,
        inner \in InnerFills \X InnerStrokes,
        own \in ElementFills \X ElementStrokes}

ClassifyConfigs ==
    {Config(Palette2, p, i, DefaultGradientProbability) : p \in BOOLEAN, i \in BOOLEAN}

InitClassify == InitWith(ClassifyConfigs, Singles \cup Chains, MaxClassifyOps)

NextClassify ==
    \/ ApplyRandomColors("A")
    \/ \E filter \in Filters : SetElementFilter(filter)

SpecClassify == InitClassify /\ [][NextClassify]_vars


(* Runs of the notification channel: listeners that return, throw or       *)
(* remove themselves, registered on the events of the calls on one target  *)
MaxEventOps == 4

Callbacks == ListenerIds \cup {"LThrow", "LOnce"}

DispatchEvents == ListenEvents \cup {"complete", "reset"}

(* one element with a fill colour *)
Solid ==
    Document("svg", "a",
        <<Node("path", 1, "#000", NULL, NULL)>>)

InitEvents == InitWith({Config(Palette1, TRUE, TRUE, DefaultGradientProbability)},
                       {Solid, Div}, MaxEventOps)

NextEvents ==
    \/ \E eventName \in DispatchEvents, listener \in Callbacks : On(eventName, listener)
    \/ \E eventName \in DispatchEvents, listener \in Callbacks : Off(eventName, listener)
    \/ \E eventName \in DispatchEvents : Emit(eventName)
    \/ ApplyRandomColors("A")
    \/ ApplyRandomPathColors("A", NoIndices, TRUE)
    \/ ResetColors("A")

SpecEvents == InitEvents /\ [][NextEvents]_vars

(* Runs of the generator called directly: every palette position can be    *)
(* drawn and the validator can accept, reject or throw on every colour     *)
MaxGeneratorOps == 3

GeneratorRandoms == Randoms \cup {99}

GradientSeeds == {"a", "a-fill-0"}

AllValidators(palette) ==
    {NoValidator(palette)} \cup
    {[isSet |-> TRUE, on |-> verdicts] :
        verdicts \in [Colors(palette) -> {"true", "false", "throw"}]}

InitGenerator ==
    InitWith({Config(palette, TRUE, TRUE, DefaultGradientProbability) :
                 palette \in {Palette1, Palette2}},
             {Solid}, MaxGeneratorOps)

NextGenerator ==
    \/ \E r \in GeneratorRandoms : GenerateRandomColor(r)
    \/ \E id \in GradientSeeds, r1 \in GeneratorRandoms, r2 \in GeneratorRandoms :
            GenerateRandomGradient(id, r1, r2)
    \/ \E validator \in AllValidators(config.colorPalette) : SetColorValidator(validator)
    \/ Tick

SpecGenerator == InitGenerator /\ [][NextGenerator]_vars

(* Runs that inspect a target before and after the calls that change it *)
MaxInspectOps == 3

(* a single element that refers to a gradient, by its fill or its stroke *)
Referencing ==
    Document("svg", "a",
        <<Node("path", 1, "url(#g1)", NULL, NULL)>>)

Outlined ==
    Document("svg", "a",
        <<Node("path", 1, "none", "url(#g1)", NULL)>>)

InitInspect ==
    InitWith(Configs, SvgDocs \cup {Referencing, Outlined, Div}, MaxInspectOps)

NextInspect ==
    \/ \E t \in Targets : GetColorState(t)
    \/ ApplyRandomColors("A")
    \/ \E options \in PathOptions :
            ApplyRandomPathColors("A", options.pathIndices, options.independentColors)
    \/ ResetColors("A")

SpecInspect == InitInspect /\ [][NextInspect]_vars

(* Runs of applyRandomColors and resetColors alone on one target *)
MaxRepeatOps == 4

InitRepeat ==
    InitWith({Config(Palette1, TRUE, TRUE, DefaultGradientProbability)},
             {LineIcon, Grouped, WithDefs}, MaxRepeatOps)

NextRepeat ==
    \/ ApplyRandomColors("A")
    \/ ResetColors("A")

SpecRepeat == InitRepeat /\ [][NextRepeat]_vars

(* Runs on a page with two svg targets, carrying the same id attribute or  *)
(* different ones                                                          *)
MaxPairOps == 3

(* a second single element, with another fill, under either id *)
Shaded(id) ==
    Document("svg", id,
        <<Node("path", 1, "#333", NULL, NULL)>>)

Pages == {("A" :> Solid) @@ ("B" :> Shaded(id)) : id \in {"a", "b"}}

InitPair ==
    InitPage({DefaultConfig, Config(Palette2, TRUE, TRUE, DefaultGradientProbability)},
             Pages, MaxPairOps)

NextPair ==
    \/ \E t \in DOMAIN dom : ApplyRandomColors(t)
    \/ \E t \in DOMAIN dom : ResetColors(t)

SpecPair == InitPair /\ [][NextPair]_vars

(* Runs of every public call on one target, with listeners registered: the *)
(* calls that write the tree or the store between the calls that only read *)
(* or notify                                                               *)
MaxStableOps == 4

InitStable ==
    InitWith({Config(Palette1, TRUE, TRUE, DefaultGradientProbability)},
             {Grouped}, MaxStableOps)

NextStable ==
    \/ ApplyRandomColors("A")
    \/ \E options \in PathOptions :
            ApplyRandomPathColors("A", options.pathIndices, options.independentColors)
    \/ ResetColors("A")
    \/ GetColorState("A")
    \/ ClearStates
    \/ \E eventName \in ListenEvents, listener \in Callbacks : On(eventName, listener)
    \/ \E eventName \in ListenEvents, listener \in Callbacks : Off(eventName, listener)
    \/ \E eventName \in DispatchEvents : Emit(eventName)

SpecStable == InitStable /\ [][NextStable]_vars

-----------------------------------------------------------------------------
(* Vocabulary of the properties *)

(* the step is a call of the named operation *)
IsCall(op) == budget' = budget - 1 /\ lastOp'.op = op

(* the tree outside its definitions container, and the container alone *)
Outside(nodes) ==
    LET defs == querySelectorDefs(nodes)
    IN  IF defs = 0 THEN nodes ELSE RemoveRange(nodes, defs, SubtreeEnd(nodes, defs))

DefsTree(nodes) ==
    LET defs == querySelectorDefs(nodes)
    IN  IF defs = 0 THEN <<>> ELSE cloneNode(nodes, defs)

(* same elements and groups with the same fill, stroke and style, and the  *)
(* same definitions container (absent in both or equal in content)         *)
SameTree(a, b) ==
    /\ Outside(a.nodes) = Outside(b.nodes)
    /\ DefsTree(a.nodes) = DefsTree(b.nodes)

EventsNamed(events, name) == {k \in 1..Len(events) : events[k].name = name}

EventsFor(events, name, el) ==
    {k \in 1..Len(events) : events[k].name = name /\ events[k].el = el}

ChannelEvents(events, el, attribute) ==
    {k \in 1..Len(events) :
        /\ events[k].name = "colorApplied"
        /\ events[k].el = el
        /\ events[k].attribute = attribute}

PaintableCount(nodes) == Len(querySelectorAll(nodes, PaintableTags))

-----------------------------------------------------------------------------
(* C1: Round trip.  For a target that is an svg with a non-empty id and no *)
(* snapshot yet, applyRandomColors followed by resetColors on the same     *)
(* target leaves every element and every group with its fill, stroke and   *)
(* style from before the apply (absent stays absent, empty stays empty)    *)
(* and the definitions container with its content from before the apply    *)
(* (absent again if it was absent).                                        *)
C1_RoundTrip ==
    [][(/\ lastOp.op = "applyRandomColors"
        /\ IsCall("resetColors")
        /\ lastOp'.target = lastOp.target
        /\ lastOp.target # NoTarget
        /\ toLowerCase(domBefore[lastOp.target].tagName) = "svg"
        /\ domBefore[lastOp.target].id # ""
        /\ domBefore[lastOp.target].id \notin DOMAIN statesBefore)
       => SameTree(dom'[lastOp.target], domBefore[lastOp.target])]_vars

(* a reset that found the snapshot of the preceding first apply and put    *)
(* back a fill and removed the container the apply had created             *)
C1_Witness ==
    /\ lastOp.op = "resetColors"
    /\ lastOp.result = "true"
    /\ prevOp.op = "applyRandomColors"
    /\ prevOp.target = lastOp.target
    /\ querySelectorDefs(domBefore[lastOp.target].nodes) # 0
    /\ querySelectorDefs(dom[lastOp.target].nodes) = 0
    /\ \E i \in 1..Len(dom[lastOp.target].nodes) :
           /\ dom[lastOp.target].nodes[i].tag = "g"
           /\ dom[lastOp.target].nodes[i].fill = "#333"
           /\ \E j \in 1..Len(domBefore[lastOp.target].nodes) :
                  /\ domBefore[lastOp.target].nodes[j].tag = "g"
                  /\ domBefore[lastOp.target].nodes[j].fill # "#333"


-----------------------------------------------------------------------------
(* C2: applyRandomColors on a valid svg without an id synthesizes an       *)
(* identifier, assigns it to the element and stores the snapshot under it, *)
(* so that a following resetColors on the same target finds the snapshot,  *)
(* returns true and restores the original colours.                         *)
C2_SynthesizedIdentity ==
    [][(/\ lastOp.op = "applyRandomColors"
        /\ lastOp.result = "true"
        /\ IsCall("resetColors")
        /\ lastOp'.target = lastOp.target
        /\ domBefore[lastOp.target].id = "")
       => /\ dom[lastOp.target].id # ""
          /\ dom[lastOp.target].id \in DOMAIN svgStates
          /\ lastOp'.result = "true"
          /\ SameTree(dom'[lastOp.target], domBefore[lastOp.target])]_vars

-----------------------------------------------------------------------------
(* C3: Snapshot stability.  A stored snapshot is neither removed nor       *)
(* changed by any call other than clearStates, and a snapshot is added     *)
(* only by applyRandomColors, for the identity of that call, and it        *)
(* records the tree as it was when that call started.                      *)
RecordsTree(originalState, nodes) ==
    LET elements == querySelectorAll(nodes, StateTags)
    IN  /\ Len(originalState.elements) = Len(elements)
        /\ \A k \in 1..Len(elements) :
               /\ originalState.elements[k].index = k - 1
               /\ originalState.elements[k].tagName = nodes[elements[k]].tag
               /\ originalState.elements[k].fill = nodes[elements[k]].fill
               /\ originalState.elements[k].stroke = nodes[elements[k]].stroke
               /\ originalState.elements[k].style = nodes[elements[k]].style
        /\ originalState.defs = DefsTree(nodes)

C3_SnapshotStable ==
    [][/\ \A id \in DOMAIN svgStates :
              ~IsCall("clearStates")
              => id \in DOMAIN svgStates' /\ svgStates'[id] = svgStates[id]
       /\ \A id \in DOMAIN svgStates' \ DOMAIN svgStates :
              /\ IsCall("applyRandomColors")
              /\ lastOp'.svgId = id
              /\ RecordsTree(svgStates'[id], dom[lastOp'.target].nodes)]_vars

(* an emit call reached a registered listener after an apply had recoloured *)
(* the tree: the snapshot of the target still records the original tree    *)
C3_Witness ==
    /\ lastOp.op = "emit"
    /\ invoked # <<>>
    /\ prevOp.op = "applyRandomColors"
    /\ prevOp.result = "true"
    /\ dom["A"].id \in DOMAIN svgStates
    /\ RecordsTree(svgStates[dom["A"].id], domOriginal["A"].nodes)
    /\ ~RecordsTree(svgStates[dom["A"].id], dom["A"].nodes)

-----------------------------------------------------------------------------
(* C4: resetColors on an element for which no snapshot is stored (never    *)
(* applied, or cleared since) returns false, changes neither the tree nor  *)
(* the snapshot store, and emits no event.                                 *)
C4_ResetWithoutSnapshot ==
    [][(/\ IsCall("resetColors")
        /\ lastOp'.target # NoTarget
        /\ \/ dom[lastOp'.target].id = ""
           \/ dom[lastOp'.target].id \notin DOMAIN svgStates)
       => /\ lastOp'.result = "false"
          /\ dom' = dom
          /\ svgStates' = svgStates
          /\ emitted' = <<>>]_vars

(* a reset that failed on a tree an apply had recoloured, the snapshot     *)
(* having been cleared in between                                          *)
C4_Witness ==
    /\ lastOp.op = "resetColors"
    /\ lastOp.target # NoTarget
    /\ lastOp.result = "false"
    /\ prevOp.op = "clearStates"
    /\ dom[lastOp.target].id # ""
    /\ \E i \in 1..Len(dom[lastOp.target].nodes) :
           /\ dom[lastOp.target].nodes[i].tag = "linearGradient"
           /\ dom[lastOp.target].nodes[i].id # "g1"

-----------------------------------------------------------------------------
(* C5: applyRandomColors on an invalid target (missing, or an element that *)
(* is not an svg) emits exactly one error event, returns false and changes *)
(* nothing: no attribute is written, no definitions container is created,  *)
(* no snapshot is stored.                                                  *)
C5_InvalidTarget ==
    [][(/\ IsCall("applyRandomColors")
        /\ \/ lastOp'.target = NoTarget
           \/ dom[lastOp'.target].tagName \notin {"svg", "SVG"})
       => /\ lastOp'.result = "false"
          /\ Len(emitted') = 1
          /\ emitted'[1].name = "error"
          /\ dom' = dom
          /\ svgStates' = svgStates]_vars

(* the call on an element with paintable children that is not an svg *)
C5_Witness ==
    /\ lastOp.op = "applyRandomColors"
    /\ lastOp.target # NoTarget
    /\ dom[lastOp.target].tagName = "DIV"
    /\ PaintableCount(dom[lastOp.target].nodes) > 0
    /\ lastOp.result = "false"
    /\ Len(emitted) = 1

-----------------------------------------------------------------------------
(* C6: applyRandomPathColors on a target without a stored snapshot         *)
(* captures one before it mutates, so that a following resetColors on the  *)
(* same target returns true and restores the colours from before the call. *)
C6_PathColorsSnapshot ==
    [][(/\ lastOp.op = "applyRandomPathColors"
        /\ IsCall("resetColors")
        /\ lastOp'.target = lastOp.target
        /\ lastOp.target # NoTarget
        /\ domBefore[lastOp.target].id # ""
        /\ domBefore[lastOp.target].id \notin DOMAIN statesBefore)
       => /\ dom[lastOp.target].id \in DOMAIN svgStates
          /\ lastOp'.result = "true"
          /\ SameTree(dom'[lastOp.target], domBefore[lastOp.target])]_vars

-----------------------------------------------------------------------------
(* C7: with independentColors = false, every element applyRandomColors     *)
(* processes whose stroke is eligible gets a stroke written and announced  *)
(* by a colorApplied event, with no error event for that element; the      *)
(* value is the fill synthesized for the element in the same pass or, if   *)
(* none was, a fresh sample.                                               *)
Eligible(nodes, index, attribute) ==
    /\ FilterOutcome(nodes[ElementAt(nodes, index)]) # "throw"
    /\ shouldProcessElementColor(nodes, ElementAt(nodes, index), attribute)

Samples == Colors(config.colorPalette) \cup {FallbackColor}

C7_StrokeReusesFill ==
    (/\ lastOp.op = "applyRandomColors"
     /\ lastOp.result = "true"
     /\ ~config.independentColors
     /\ ~colorValidator.isSet)
    => \A index \in 0..(PaintableCount(domBefore[lastOp.target].nodes) - 1) :
          Eligible(domBefore[lastOp.target].nodes, index, "stroke")
          => /\ EventsFor(emitted, "error", index) = {}
             /\ \E k \in ChannelEvents(emitted, index, "stroke") :
                   /\ \A f \in ChannelEvents(emitted, index, "fill") :
                          emitted[k].color = emitted[f].color
                   /\ ChannelEvents(emitted, index, "fill") = {}
                          => emitted[k].color \in Samples

-----------------------------------------------------------------------------
(* C8: Partial success.  An element whose processing throws yields exactly *)
(* one error event carrying the element and its index; every other element *)
(* is still classified and coloured; applyRandomColors returns true, and   *)
(* it returns false only for an invalid target or a target without         *)
(* paintable elements.                                                     *)

(* processing the element is bound to throw: the filter throws, or the     *)
(* stroke branch runs with independentColors = false                       *)
MustThrow(nodes, index) ==
    \/ FilterOutcome(nodes[ElementAt(nodes, index)]) = "throw"
    \/ Eligible(nodes, index, "stroke") /\ ~config.independentColors

C8_PartialSuccess ==
    lastOp.op = "applyRandomColors"
    => LET t == lastOp.target
           before == domBefore[t].nodes
       IN  IF ~IsValidTarget(t) \/ PaintableCount(before) = 0
           THEN lastOp.result = "false"
           ELSE /\ lastOp.result = "true"
                /\ Cardinality(EventsNamed(emitted, "complete")) = 1
                /\ \A index \in 0..(PaintableCount(before) - 1) :
                       LET errors == EventsFor(emitted, "error", index)
                       IN  /\ Cardinality(errors) <= 1
                           /\ \A k \in errors : emitted[k].index = index
                           /\ MustThrow(before, index) => errors # {}
                           /\ errors = {}
                              => \A attribute \in {"fill", "stroke"} :
                                     Eligible(before, index, attribute)
                                     => ChannelEvents(emitted, index, attribute) # {}

(* the first element threw and the second was coloured all the same *)
C8_Witness ==
    /\ lastOp.op = "applyRandomColors"
    /\ lastOp.result = "true"
    /\ EventsFor(emitted, "error", 0) # {}
    /\ ChannelEvents(emitted, 1, "fill") # {}
    /\ dom[lastOp.target] # domBefore[lastOp.target]


-----------------------------------------------------------------------------
(* C9 and C10 speak of the paint an element has: its own value, or the one *)
(* inherited from the nearest group that declares the attribute, where     *)
(* none, transparent and the empty string count as no paint.               *)
HasPaint(nodes, i, attribute) ==
    \/ nodes[i][attribute] \notin {NULL, "", "none", "transparent"}
    \/ \E j \in 1..(i - 1) :
          /\ IsAncestor(nodes, j, i)
          /\ nodes[j].tag = "g"
          /\ nodes[j][attribute] # NULL
          /\ \A k \in (j + 1)..(i - 1) :
                 ~(IsAncestor(nodes, k, i) /\ nodes[k].tag = "g"
                   /\ nodes[k][attribute] # NULL)
          /\ nodes[j][attribute] \notin {"", "none", "transparent"}

Paintables(nodes) == {i \in 1..Len(nodes) : nodes[i].tag \in PaintableTags}

(* the k-th element or group of the tree, in document order *)
StateNode(nodes, k) == nodes[querySelectorAll(nodes, StateTags)[k]]

(* the stated configuration defaults, with no filter and no validator set *)
IsDefaultSetup ==
    /\ config.preserveLinearStyle
    /\ config.independentColors
    /\ config.gradientProbability = DefaultGradientProbability
    /\ ~elementFilter.isSet
    /\ ~colorValidator.isSet

(* after applyRandomColors under the default setup, an element that had    *)
(* fill="none", a stroke colour and no group above it still has fill none  *)
(* and carries the stroke announced for it                                 *)
LineIconKept ==
    (lastOp.op = "applyRandomColors" /\ lastOp.result = "true" /\ IsDefaultSetup)
    => LET before == domBefore[lastOp.target].nodes
           after == dom[lastOp.target].nodes
       IN  \A index \in 0..(PaintableCount(before) - 1) :
              LET b == before[ElementAt(before, index)]
                  a == after[ElementAt(after, index)]
              IN  (b.fill = "none" /\ IsColor(b.stroke) /\ b.depth = 1)
                  => /\ a.fill = "none"
                     /\ \E k \in ChannelEvents(emitted, index, "stroke") :
                           /\ emitted[k].color \in Samples
                           /\ a.stroke = emitted[k].color

(* C9 as stated: line-icon protection.  For an element with a stroke (own  *)
(* or inherited) and no own or inherited fill, shouldProcessElementColor   *)
(* for fill is false when preserveLinearStyle is true and true when it is  *)
(* false; and under the default setup an element with fill="none" and a    *)
(* stroke colour gets a new stroke while its fill stays "none".            *)
C9_AsStated ==
    /\ \A t \in DOMAIN dom : \A i \in Paintables(dom[t].nodes) :
           (HasPaint(dom[t].nodes, i, "stroke") /\ ~HasPaint(dom[t].nodes, i, "fill"))
           => (shouldProcessElementColor(dom[t].nodes, i, "fill")
                   <=> ~config.preserveLinearStyle)
    /\ LineIconKept

(* C9 as amended: the same, for an element the element filter (if one is   *)
(* set) accepts; an element the filter rejects gets false for every        *)
(* setting of preserveLinearStyle.                                         *)
C9_LineIconProtection ==
    /\ \A t \in DOMAIN dom : \A i \in Paintables(dom[t].nodes) :
           (HasPaint(dom[t].nodes, i, "stroke") /\ ~HasPaint(dom[t].nodes, i, "fill"))
           => IF FilterOutcome(dom[t].nodes[i]) = "false"
              THEN ~shouldProcessElementColor(dom[t].nodes, i, "fill")
              ELSE (shouldProcessElementColor(dom[t].nodes, i, "fill")
                        <=> ~config.preserveLinearStyle)
    /\ LineIconKept

(* the default setup recoloured the stroke of a line icon and left its     *)
(* fill="none" alone                                                       *)
C9_Witness ==
    /\ lastOp.op = "applyRandomColors"
    /\ lastOp.result = "true"
    /\ IsDefaultSetup
    /\ Len(domBefore[lastOp.target].nodes) = 1
    /\ domBefore[lastOp.target].nodes[1].fill = "none"
    /\ domBefore[lastOp.target].nodes[1].stroke = "#000"
    /\ ChannelEvents(emitted, 0, "stroke") # {}
    /\ ChannelEvents(emitted, 0, "fill") = {}
    /\ dom[lastOp.target].nodes[ElementAt(dom[lastOp.target].nodes, 0)].stroke # "#000"

-----------------------------------------------------------------------------
(* applyRandomColors changes the stroke of no element or group that had no *)
(* stroke colour                                                           *)
NoStrokeAdded ==
    (lastOp.op = "applyRandomColors" /\ IsValidTarget(lastOp.target))
    => LET before == domBefore[lastOp.target].nodes
           after == dom[lastOp.target].nodes
       IN  \A k \in 1..Len(querySelectorAll(before, StateTags)) :
              StateNode(after, k).stroke # StateNode(before, k).stroke
              => IsColor(StateNode(before, k).stroke)

(* C10 as stated: fill / stroke asymmetry.  For an element with neither    *)
(* own nor inherited fill and neither own nor inherited stroke,            *)
(* shouldProcessElementColor is true for fill and false for stroke in      *)
(* every configuration; it is false for stroke for every element without   *)
(* own or inherited stroke, so applyRandomColors adds no stroke.           *)
C10_AsStated ==
    /\ \A t \in DOMAIN dom : \A i \in Paintables(dom[t].nodes) :
           /\ (~HasPaint(dom[t].nodes, i, "fill") /\ ~HasPaint(dom[t].nodes, i, "stroke"))
              => /\ shouldProcessElementColor(dom[t].nodes, i, "fill")
                 /\ ~shouldProcessElementColor(dom[t].nodes, i, "stroke")
           /\ ~HasPaint(dom[t].nodes, i, "stroke")
              => ~shouldProcessElementColor(dom[t].nodes, i, "stroke")
    /\ NoStrokeAdded

(* C10 as amended: the same, the fill verdict being true for an element    *)
(* the element filter (if one is set) accepts and false for one it rejects *)
C10_FillStrokeAsymmetry ==
    /\ \A t \in DOMAIN dom : \A i \in Paintables(dom[t].nodes) :
           /\ (~HasPaint(dom[t].nodes, i, "fill") /\ ~HasPaint(dom[t].nodes, i, "stroke"))
              => /\ shouldProcessElementColor(dom[t].nodes, i, "fill")
                     <=> FilterOutcome(dom[t].nodes[i]) # "false"
                 /\ ~shouldProcessElementColor(dom[t].nodes, i, "stroke")
           /\ ~HasPaint(dom[t].nodes, i, "stroke")
              => ~shouldProcessElementColor(dom[t].nodes, i, "stroke")
    /\ NoStrokeAdded

(* a colourless element inside groups that declare no colour got a fill    *)
(* and no stroke                                                           *)
C10_Witness ==
    /\ lastOp.op = "applyRandomColors"
    /\ lastOp.result = "true"
    /\ LET before == domBefore[lastOp.target].nodes
           i == ElementAt(before, 0)
       IN  /\ Len(before) = 3
           /\ ~HasPaint(before, i, "fill")
           /\ ~HasPaint(before, i, "stroke")
           /\ before[2].stroke = "transparent"
    /\ ChannelEvents(emitted, 0, "fill") # {}
    /\ ChannelEvents(emitted, 0, "stroke") = {}
    /\ EventsFor(emitted, "error", 0) = {}

-----------------------------------------------------------------------------
(* Vocabulary of the claims about what applyRandomColors writes *)

(* a paint value that refers to a gradient made by generateRandomGradient *)
IsGradientRef(v) == Len(v) >= 14 /\ SubSeq(v, 1, 14) = "url(#gradient-"

(* a value the generator can have made: a palette colour, the fallback     *)
(* colour or a reference to a generated gradient                           *)
Synthesized(v) == v \in Samples \/ IsGradientRef(v)

(* 0-based position of the node at i among the paintable elements *)
PaintableIndex(nodes, i) ==
    Cardinality({j \in 1..(i - 1) : nodes[j].tag \in PaintableTags})

(* 1-based position of the node at i among the elements and groups *)
StateIndex(nodes, i) ==
    Cardinality({j \in 1..i : nodes[j].tag \in StateTags})

(* the children that inherit their fill from the group at j: they have no  *)
(* fill attribute and j is the nearest group that declares one             *)
Heirs(nodes, j) ==
    {i \in Paintables(nodes) : nodes[i].fill = NULL /\ closest(nodes, i, "fill") = j}

(* the groups with a fill colour that some child inherits *)
GivingGroups(nodes) ==
    {j \in 1..Len(nodes) :
        nodes[j].tag = "g" /\ IsColor(nodes[j].fill) /\ Heirs(nodes, j) # {}}

(* the group that was at j before the call, as it is after the call *)
After(j) ==
    StateNode(dom[lastOp.target].nodes,
              StateIndex(domBefore[lastOp.target].nodes, j))

(* the children keep no fill of their own *)
HeirsKeepNoFill ==
    \A j \in GivingGroups(domBefore[lastOp.target].nodes) :
        \A i \in Heirs(domBefore[lastOp.target].nodes, j) : After(i).fill = NULL

(* the group carries a value made in this call and announced as a fill *)
Recoloured(j) ==
    /\ Synthesized(After(j).fill)
    /\ \E k \in EventsNamed(emitted, "colorApplied") :
           emitted[k].attribute = "fill" /\ emitted[k].color = After(j).fill

(* C11 as stated: after applyRandomColors, every child without a fill of    *)
(* its own under a group with a fill colour still has no fill attribute,    *)
(* and the group's fill is a newly synthesized value (palette colour,       *)
(* fallback colour or gradient reference), which all those children         *)
(* inherit.                                                                 *)
C11_AsStated ==
    (lastOp.op = "applyRandomColors" /\ lastOp.result = "true")
    => /\ HeirsKeepNoFill
       /\ \A j \in GivingGroups(domBefore[lastOp.target].nodes) : Recoloured(j)

-----------------------------------------------------------------------------
(* Vocabulary of the claims about listeners *)

(* the listeners called for the event at position e of the call, in order *)
CalledFor(e) ==
    LET calls == SelectSeq(invoked, LAMBDA v : v.event = e)
    IN  [k \in 1..Len(calls) |-> calls[k].listener]

(* a can be obtained from b by leaving out entries *)
RECURSIVE IsSubsequence(_, _)
IsSubsequence(a, b) ==
    IF a = <<>> THEN TRUE
    ELSE IF b = <<>> THEN FALSE
    ELSE IF a[1] = b[1] THEN IsSubsequence(Tail(a), Tail(b))
    ELSE IsSubsequence(a, Tail(b))

(* no listener registered when the call started changes the registry *)
PlainListeners ==
    \A eventName \in DOMAIN listenersBefore :
        \A k \in 1..Len(listenersBefore[eventName]) :
            Behaviour(listenersBefore[eventName][k]) # "off"

(* C12: Listener dispatch.  No exception of a listener leaves emit, so the *)
(* call that emitted ends as it does without listeners; the listeners are  *)
(* called event by event, for each event in the order they were registered *)
(* in; and when the listeners only return or throw, every listener         *)
(* registered for the event is called, those after a throwing one          *)
(* included.                                                               *)
C12_ListenerDispatch ==
    /\ \A k \in 1..Len(invoked) : invoked[k].outcome # "escaped"
    /\ \A k \in 1..(Len(invoked) - 1) : invoked[k].event <= invoked[k + 1].event
    /\ \A e \in 1..Len(emitted) :
           IsSubsequence(CalledFor(e), ListenersOf(listenersBefore, emitted[e].name))
    /\ PlainListeners
       => /\ \A e \in 1..Len(emitted) :
                 CalledFor(e) = ListenersOf(listenersBefore, emitted[e].name)
          /\ lastOp.op \notin {"on", "off"} => eventListeners = listenersBefore
    /\ (lastOp.op = "applyRandomColors" /\ IsValidTarget(lastOp.target)
        /\ PaintableCount(domBefore[lastOp.target].nodes) > 0)
       => lastOp.result = "true" /\ emitted[Len(emitted)].name = "complete"

(* applyRandomColors ran to its complete event although the first of the   *)
(* two listeners of colorApplied or complete threw; the second was called  *)
C12_Witness ==
    /\ lastOp.op = "applyRandomColors"
    /\ lastOp.result = "true"
    /\ dom # domBefore
    /\ \E k \in 1..(Len(invoked) - 1) :
           /\ invoked[k].listener = "LThrow"
           /\ invoked[k].outcome = "caught"
           /\ invoked[k + 1].listener = "L1"
           /\ invoked[k + 1].event = invoked[k].event
           /\ emitted[invoked[k].event].name = "complete"

-----------------------------------------------------------------------------
(* C13: two calls of generateRandomGradient with the same id argument      *)
(* return two different reference tokens, also when Date.now() reads the   *)
(* same for both calls.                                                    *)
C13_DistinctTokens ==
    [][(/\ lastOp.op = "generateRandomGradient"
        /\ lastOp.result # "throws"
        /\ IsCall("generateRandomGradient")
        /\ lastOp'.result # "throws"
        /\ lastOp'.id = lastOp.id)
       => /\ lastOp'.result # lastOp.result
          /\ lastOp'.gradient.id # lastOp.gradient.id]_vars

-----------------------------------------------------------------------------
(* C14: generateRandomColor with a non-empty palette returns the palette   *)
(* member it sampled, or the fallback colour when a validator is set and   *)
(* rejects that member (no second sample is taken); with a palette of one  *)
(* entry and no validator it returns that entry.  A validator that throws  *)
(* ends the call with its exception.                                       *)
C14_PaletteOrFallback ==
    lastOp.op = "generateRandomColor"
    => LET colors == config.colorPalette
           sampled == colors[((lastOp.random * Len(colors)) \div 100) + 1]
           verdict == IF colorValidator.isSet THEN colorValidator.on[sampled]
                      ELSE "true"
       IN  /\ lastOp.result \in Colors(colors) \cup {FallbackColor, "throws"}
           /\ verdict = "true" => lastOp.result = sampled
           /\ verdict = "false" => lastOp.result = FallbackColor
           /\ verdict = "throw" => lastOp.result = "throws"
           /\ (Len(colors) = 1 /\ ~colorValidator.isSet) => lastOp.result = colors[1]

(* the second palette entry was sampled and rejected by the validator,     *)
(* which accepts the first: the call returned the fallback colour          *)
C14_Witness ==
    /\ lastOp.op = "generateRandomColor"
    /\ Len(config.colorPalette) = 2
    /\ lastOp.random = 99
    /\ colorValidator.isSet
    /\ colorValidator.on[config.colorPalette[2]] = "false"
    /\ colorValidator.on[config.colorPalette[1]] = "true"
    /\ lastOp.result = FallbackColor

-----------------------------------------------------------------------------
(* C15: Event accounting.  An applyRandomColors call that returns true     *)
(* emits exactly one complete event, as its last event, after colorApplied *)
(* and error events only; one colorApplied event per write of a fill or a  *)
(* stroke, so that every changed fill or stroke carries an announced       *)
(* value; and the complete event counts processedCount <= totalCount with  *)
(* processedCount + number of error events = totalCount = number of        *)
(* paintable elements.                                                     *)
C15_EventAccounting ==
    (lastOp.op = "applyRandomColors" /\ lastOp.result = "true")
    => LET before == domBefore[lastOp.target].nodes
           after == dom[lastOp.target].nodes
           complete == emitted[Len(emitted)]
       IN  /\ Cardinality(EventsNamed(emitted, "complete")) = 1
           /\ complete.name = "complete"
           /\ \A k \in 1..(Len(emitted) - 1) : emitted[k].name \in {"colorApplied", "error"}
           /\ Cardinality(EventsNamed(emitted, "colorApplied")) = lastOp.writes
           /\ \A k \in 1..Len(querySelectorAll(before, StateTags)) :
                  \A attribute \in {"fill", "stroke"} :
                      StateNode(after, k)[attribute] # StateNode(before, k)[attribute]
                      => \E e \in EventsNamed(emitted, "colorApplied") :
                             /\ emitted[e].attribute = attribute
                             /\ emitted[e].color = StateNode(after, k)[attribute]
           /\ complete.processedCount <= complete.totalCount
           /\ complete.totalCount = PaintableCount(before)
           /\ complete.processedCount + Cardinality(EventsNamed(emitted, "error"))
                  = complete.totalCount

(* a call with two writes announced, one element failed and one processed *)
C15_Witness ==
    /\ lastOp.op = "applyRandomColors"
    /\ lastOp.result = "true"
    /\ lastOp.writes = 2
    /\ Cardinality(EventsNamed(emitted, "colorApplied")) = 2
    /\ Cardinality(EventsNamed(emitted, "error")) = 1
    /\ emitted[Len(emitted)].processedCount = 1
    /\ emitted[Len(emitted)].totalCount = 2

-----------------------------------------------------------------------------
(* C16: getColorState is a pure read.  Whatever was called before, it      *)
(* leaves every document, the snapshot store, the filter, the validator    *)
(* and the listeners as they are and emits no event; for an element target *)
(* it returns a report whose gradientElements is the number of paintable   *)
(* elements whose own fill or own stroke starts with "url(".               *)
RefersToGradient(v) == v \notin {NULL, ""} /\ Len(v) >= 4 /\ SubSeq(v, 1, 4) = "url("

C16_PureRead ==
    [][IsCall("getColorState")
       => /\ dom' = dom
          /\ svgStates' = svgStates
          /\ emitted' = <<>>
          /\ invoked' = <<>>
          /\ UNCHANGED <<eventListeners, elementFilter, colorValidator, config>>
          /\ lastOp'.target # NoTarget
             => /\ lastOp'.result = "object"
                /\ lastOp'.report.gradientElements =
                       Cardinality({i \in Paintables(dom[lastOp'.target].nodes) :
                           \/ RefersToGradient(dom[lastOp'.target].nodes[i].fill)
                           \/ RefersToGradient(dom[lastOp'.target].nodes[i].stroke)})
                /\ dom[lastOp'.target] = Referencing
                   => lastOp'.report.gradientElements = 1]_vars

(* the report on the untouched single element with fill="url(#g1)" *)
C16_Witness ==
    /\ lastOp.op = "getColorState"
    /\ prevOp.op = "constructor"
    /\ lastOp.target # NoTarget
    /\ dom[lastOp.target] = Referencing
    /\ lastOp.report.gradientElements = 1
    /\ lastOp.report.totalElements = 1
    /\ svgStates = NoStates

-----------------------------------------------------------------------------
(* C17: Nested groups.  For an element the filter accepts whose own value  *)
(* for the channel is absent or none / transparent / empty,                *)
(* shouldProcessElementColor is true whenever some group above it carries  *)
(* a colour for the channel, also when a nearer group declares the channel *)
(* as none or transparent; for fill (whatever the stroke and               *)
(* preserveLinearStyle) and for stroke.                                    *)
SomeGroupHasColor(nodes, i, attribute) ==
    \E j \in 1..(i - 1) :
        IsAncestor(nodes, j, i) /\ nodes[j].tag = "g" /\ IsColor(nodes[j][attribute])

C17_NestedGroups ==
    \A t \in DOMAIN dom : \A i \in Paintables(dom[t].nodes) :
        \A attribute \in {"fill", "stroke"} :
            (/\ FilterOutcome(dom[t].nodes[i]) = "true"
             /\ ~IsColor(dom[t].nodes[i][attribute])
             /\ SomeGroupHasColor(dom[t].nodes, i, attribute))
            => shouldProcessElementColor(dom[t].nodes, i, attribute)

-----------------------------------------------------------------------------
(* C18: Write target.  applyRandomColors changes the fill or stroke of a   *)
(* group only if the group carried a colour for that channel before the    *)
(* call (a group declaring none or transparent, or nothing, keeps its      *)
(* value), and only through an element without a colour of its own; an     *)
(* element whose channel was written and that inherits no colour for it    *)
(* carries the written value itself.                                       *)
C18_WriteTarget ==
    (lastOp.op = "applyRandomColors" /\ lastOp.result = "true")
    => LET before == domBefore[lastOp.target].nodes
           after == dom[lastOp.target].nodes
       IN  /\ \A k \in 1..Len(querySelectorAll(before, StateTags)) :
                  \A attribute \in {"fill", "stroke"} :
                      (/\ StateNode(before, k).tag = "g"
                       /\ StateNode(after, k)[attribute] # StateNode(before, k)[attribute])
                      => IsColor(StateNode(before, k)[attribute])
           /\ \A i \in Paintables(before) : \A attribute \in {"fill", "stroke"} :
                  (/\ ChannelEvents(emitted, PaintableIndex(before, i), attribute) # {}
                   /\ ~SomeGroupHasColor(before, i, attribute))
                  => \E e \in ChannelEvents(emitted, PaintableIndex(before, i), attribute) :
                         After(i)[attribute] = emitted[e].color

-----------------------------------------------------------------------------
(* C19: Repeated cycles.  On a target with an id, whenever resetColors     *)
(* finds the snapshot after any run of applyRandomColors and resetColors,  *)
(* every element and group has its fill, stroke and style from before the  *)
(* first applyRandomColors and the definitions container has its content   *)
(* from then, also when that container was not the first child or holds    *)
(* paintable elements; and a resetColors right after a resetColors leaves  *)
(* the tree as it is.                                                      *)
C19_RepeatedCycles ==
    [][(IsCall("resetColors") /\ lastOp'.result = "true")
       => /\ SameTree(dom'[lastOp'.target], domOriginal[lastOp'.target])
          /\ (lastOp.op = "resetColors" /\ lastOp.result = "true") => dom' = dom]_vars

-----------------------------------------------------------------------------
(* C20: Failure isolation in applyRandomPathColors.  On an element with    *)
(* paintable elements the call returns true whatever happens at one index, *)
(* every requested index in range whose processing does not fail is        *)
(* processed, and with independentColors = false an element whose stroke   *)
(* is eligible gets the fill made for it in this call, or a fresh sample   *)
(* if none was made.                                                       *)
Requested(nodes) ==
    LET total == PaintableCount(nodes)
        list == IF lastOp.pathIndices.given THEN lastOp.pathIndices.list
                ELSE [k \in 1..total |-> k - 1]
    IN  {list[k] : k \in 1..Len(list)} \cap (0..(total - 1))

C20_PathFailureIsolation ==
    (/\ lastOp.op = "applyRandomPathColors"
     /\ lastOp.target # NoTarget
     /\ PaintableCount(domBefore[lastOp.target].nodes) > 0)
    => LET before == domBefore[lastOp.target].nodes
       IN  /\ lastOp.result = "true"
           /\ \A index \in Requested(before) :
                  /\ (Eligible(before, index, "fill")
                      /\ FilterOutcome(before[ElementAt(before, index)]) = "true")
                     => ChannelEvents(emitted, index, "fill") # {}
                  /\ (Eligible(before, index, "stroke") /\ ~lastOp.independentColors
                      /\ ~colorValidator.isSet)
                     => \E k \in ChannelEvents(emitted, index, "stroke") :
                            /\ \A f \in ChannelEvents(emitted, index, "fill") :
                                   emitted[k].color = emitted[f].color
                            /\ emitted[k].color \in Samples

-----------------------------------------------------------------------------
(* C21: a failing applyRandomColors leaves the state untouched.  Whenever  *)
(* the call returns false, also for a valid svg without paintable          *)
(* elements, the snapshot store has the keys and contents it had before    *)
(* the call and the tree is unchanged.                                     *)
C21_FailedApplyUntouched ==
    (lastOp.op = "applyRandomColors" /\ lastOp.result = "false")
    => /\ svgStates = statesBefore
       /\ dom = domBefore

-----------------------------------------------------------------------------
(* C22: Re-entrant listener removal.  The first emit of a call invokes     *)
(* every listener that was registered for its event when it started,       *)
(* exactly once and in order, also when a listener removes itself from     *)
(* inside its callback.                                                    *)
C22_ReentrantRemoval ==
    emitted # <<>>
    => CalledFor(1) = ListenersOf(listenersBefore, emitted[1].name)

-----------------------------------------------------------------------------
(* C23: no dangling or ambiguous gradient reference.  On a target with an  *)
(* id whose original fills and strokes referred to no gradient, every fill *)
(* or stroke of the form url(#gradient-...) on an element or group refers  *)
(* to an id that exactly one gradient of the live definitions container    *)
(* carries.                                                                *)
GradientsNamed(nodes, reference) ==
    LET defs == querySelectorDefs(nodes)
    IN  IF defs = 0 THEN {}
        ELSE {j \in (defs + 1)..SubtreeEnd(nodes, defs) :
                 /\ nodes[j].tag = "linearGradient"
                 /\ "url(#" \o nodes[j].id \o ")" = reference}

C23_GradientReferences ==
    \A t \in DOMAIN dom :
        (/\ dom[t].id # ""
         /\ \A i \in 1..Len(domOriginal[t].nodes) :
                /\ ~RefersToGradient(domOriginal[t].nodes[i].fill)
                /\ ~RefersToGradient(domOriginal[t].nodes[i].stroke))
        => \A i \in 1..Len(dom[t].nodes) : \A attribute \in {"fill", "stroke"} :
               (dom[t].nodes[i].tag \in StateTags
                /\ IsGradientRef(dom[t].nodes[i][attribute]))
               => Cardinality(GradientsNamed(dom[t].nodes, dom[t].nodes[i][attribute])) = 1

-----------------------------------------------------------------------------
(* C24: Snapshot isolation between targets.  A resetColors that finds a    *)
(* snapshot puts its target back to the target's own original state, and   *)
(* changes no other target; an applyRandomColors on a target that is still *)
(* in its original state leaves the store with a snapshot of that target   *)
(* under the identity of the call; also when two targets carry the same id *)
(* attribute.                                                              *)
C24_SnapshotIsolation ==
    /\ (lastOp.op = "resetColors" /\ lastOp.result = "true")
       => /\ SameTree(dom[lastOp.target], domOriginal[lastOp.target])
          /\ \A t \in DOMAIN dom \ {lastOp.target} : dom[t] = domBefore[t]
    /\ (/\ lastOp.op = "applyRandomColors"
        /\ lastOp.result = "true"
        /\ domBefore[lastOp.target] = domOriginal[lastOp.target])
       => /\ lastOp.svgId \in DOMAIN svgStates
          /\ RecordsTree(svgStates[lastOp.svgId], domOriginal[lastOp.target].nodes)

=============================================================================
